---- MODULE Spec2Model ----
(***************************************************************************)
(* Multi-platform publish pipeline of app/services/social_media.py with    *)
(* the availability resolver of app/config.py.                             *)
(*                                                                         *)
(* Text is a sequence of one-character strings, a Python dict is a         *)
(* sequence of key/value pairs in insertion order, Optional[...] is a      *)
(* record [some, val].  Every remote call made by a handler is appended to *)
(* the call log of that handler's invocation together with the answer the  *)
(* external platform gave.                                                 *)
(***************************************************************************)
EXTENDS Integers, Sequences, FiniteSets, TLC

VARIABLES settings, instagram, facebook, last, threads

vars == <<settings, instagram, facebook, last, threads>>

(* ------------------------------------------------------------------ *)
(* Bounds of the model                                                 *)
(* ------------------------------------------------------------------ *)

\* longest requested platform list
MaxPlatforms == 2

\* captions of SpecText have lengths within Slack of the Instagram cap
Slack == 2

\* request threads calling post_to_platforms at the same time in SpecThreads
NumThreads == 2

(* ------------------------------------------------------------------ *)
(* Values                                                              *)
(* ------------------------------------------------------------------ *)

NoneVal == "<None>"

Truthy(v) == v # NoneVal /\ v # ""

NoneOpt == [some |-> FALSE, val |-> <<>>]

Some(v) == [some |-> TRUE, val |-> v]

\* Python truthiness of an Optional[List[str]]
TruthyList(o) == o.some /\ Len(o.val) > 0

\* sep.join(items)
RECURSIVE Join(_, _)
Join(sep, items) ==
    IF items = <<>> THEN <<>>
    ELSE IF Len(items) = 1 THEN Head(items)
    ELSE Head(items) \o sep \o Join(sep, Tail(items))

Range(s) == {s[i] : i \in 1..Len(s)}

\* x in list
In(x, s) == \E i \in 1..Len(s) : s[i] = x

(* dict as a sequence of [key, value] pairs in insertion order *)
EmptyDict == <<>>

Keys(d) == {d[i].key : i \in 1..Len(d)}

KeyCount(d, k) == Cardinality({i \in 1..Len(d) : d[i].key = k})

\* d[k] = v
DictSet(d, k, v) ==
    IF \E i \in 1..Len(d) : d[i].key = k
    THEN [i \in 1..Len(d) |-> IF d[i].key = k THEN [key |-> k, value |-> v] ELSE d[i]]
    ELSE Append(d, [key |-> k, value |-> v])

\* r.get("success", False)
GetSuccess(r) == IF "success" \in DOMAIN r THEN r.success ELSE FALSE

(* ------------------------------------------------------------------ *)
(* config.py: Settings                                                 *)
(* ------------------------------------------------------------------ *)

CredValues == {NoneVal, "cred"}

SettingsSpace ==
    [instagram_username : CredValues,
     instagram_password : CredValues,
     instagram_access_token : CredValues,
     instagram_account_id : CredValues,
     instagram_enabled : BOOLEAN,
     facebook_access_token : CredValues,
     facebook_page_id : CredValues,
     facebook_enabled : BOOLEAN]

\* the configuration test knowing the username and password pair only
is_instagram_configured_PasswordOnly(s) ==
    Truthy(s.instagram_username) /\ Truthy(s.instagram_password)

is_instagram_configured(s) ==
    IF Truthy(s.instagram_username) /\ Truthy(s.instagram_password) THEN TRUE
    ELSE IF Truthy(s.instagram_access_token) /\ Truthy(s.instagram_account_id) THEN TRUE
    ELSE FALSE

is_facebook_configured(s) ==
    Truthy(s.facebook_access_token) /\ Truthy(s.facebook_page_id)

\* the list built from the credentials alone, the enabled flags unread
get_enabled_platforms_ConfiguredOnly(s) ==
    (IF is_instagram_configured(s) THEN <<"instagram">> ELSE <<>>)
    \o (IF is_facebook_configured(s) THEN <<"facebook">> ELSE <<>>)

get_enabled_platforms(s) ==
    (IF s.instagram_enabled /\ is_instagram_configured(s) THEN <<"instagram">> ELSE <<>>)
    \o (IF s.facebook_enabled /\ is_facebook_configured(s) THEN <<"facebook">> ELSE <<>>)

(* ------------------------------------------------------------------ *)
(* The external platforms                                              *)
(* ------------------------------------------------------------------ *)

\* answers of instagrapi's Client.login
LoginOutcomes == {"ok", "LoginRequired", "Exception"}

\* answers of instagrapi's Client.photo_upload
UploadOutcomes == {"ok", "LoginRequired", "Exception"}

\* answers of GraphAPI.get_object
InitOutcomes == {"ok", "GraphAPIError"}

\* answers of GraphAPI.put_photo
PutOutcomes == {"ok", "OAuthException", "GraphAPIError"}

\* what the platforms answer during one invocation
EnvSpace ==
    [ig_login : LoginOutcomes, ig_upload : UploadOutcomes,
     fb_init : InitOutcomes, fb_put : PutOutcomes]

EnvOk == [ig_login |-> "ok", ig_upload |-> "ok", fb_init |-> "ok", fb_put |-> "ok"]

\* one entry of an invocation's call log
Call(op, outcome, arg) == [op |-> op, outcome |-> outcome, arg |-> arg]

Ops(calls) == {calls[i].op : i \in 1..Len(calls)}

\* the media object photo_upload returns
Media == [id |-> "3141592653_1", code |-> "CxYz"]

\* the response put_photo returns
Response == [id |-> "1122_3344"]

(* ------------------------------------------------------------------ *)
(* social_media.py: InstagramService                                   *)
(* Every handler yields [ret, raised, <session>, calls]: the value it  *)
(* returns, whether an exception left it, the adapter's fields after   *)
(* it, and the calls it made.                                          *)
(* ------------------------------------------------------------------ *)

\* the constructor building the client at once
InstagramService_init_Eager == [client |-> "InstaClient", _logged_in |-> FALSE]

InstagramService_init == [client |-> NoneVal, _logged_in |-> FALSE]

\* the try block setting the flag before client.login has answered
InstagramService_login_try_FlagFirst(s, ig, env) ==
    [ret |-> env.ig_login = "ok",
     raised |-> FALSE,
     ig |-> [client |-> "InstaClient", _logged_in |-> TRUE],
     calls |-> <<Call("InstagramService.login", "enter", <<>>),
                 Call("InstaClient", "ok", <<>>),
                 Call("client.login", env.ig_login,
                      <<s.instagram_username, s.instagram_password>>)>>]

\* the try block of login: a new client, then client.login
InstagramService_login_try(s, ig, env) ==
    [ret |-> env.ig_login = "ok",
     raised |-> FALSE,
     ig |-> [client |-> "InstaClient",
             _logged_in |-> IF env.ig_login = "ok" THEN TRUE ELSE ig._logged_in],
     calls |-> <<Call("InstagramService.login", "enter", <<>>),
                 Call("InstaClient", "ok", <<>>),
                 Call("client.login", env.ig_login,
                      <<s.instagram_username, s.instagram_password>>)>>]

InstagramService_login(s, ig, env) ==
    IF ~is_instagram_configured(s)
    THEN [ret |-> FALSE, raised |-> FALSE, ig |-> ig,
          calls |-> <<Call("InstagramService.login", "enter", <<>>)>>]
    ELSE IF ig._logged_in
    THEN [ret |-> TRUE, raised |-> FALSE, ig |-> ig,
          calls |-> <<Call("InstagramService.login", "enter", <<>>)>>]
    ELSE InstagramService_login_try(s, ig, env)

\* caption + "\n\n" + " ".join(hashtags) when hashtags is truthy
InstagramFullCaption(caption, hashtags) ==
    IF TruthyList(hashtags)
    THEN caption \o <<"\n", "\n">> \o Join(<<" ">>, hashtags.val)
    ELSE caption

InstagramCaptionLimit == 2200

InstagramTruncateKeep == 2197

\* the guard cutting at the limit itself, leaving no room for the ellipsis
InstagramTruncate_NoRoom(full_caption) ==
    IF Len(full_caption) > InstagramCaptionLimit
    THEN SubSeq(full_caption, 1, InstagramCaptionLimit) \o <<".", ".", ".">>
    ELSE full_caption

\* the length guard of post_photo
InstagramTruncate(full_caption) ==
    IF Len(full_caption) > InstagramCaptionLimit
    THEN SubSeq(full_caption, 1, InstagramTruncateKeep) \o <<".", ".", ".">>
    ELSE full_caption

InstagramUrl(code) == <<"https://www.instagram.com/p/", code, "/">>

\* the upload without the except clause: a failed upload leaves post_photo
InstagramService_upload_NoCatch(igs, full_caption, hashtags, env) ==
    IF igs.client # NoneVal /\ env.ig_upload = "ok"
    THEN [ret |-> [success |-> TRUE,
                   platform |-> "instagram",
                   media_id |-> Media.id,
                   media_code |-> Media.code,
                   url |-> InstagramUrl(Media.code),
                   caption_length |-> Len(full_caption),
                   hashtag_count |-> IF TruthyList(hashtags) THEN Len(hashtags.val) ELSE 0],
          raised |-> FALSE, ig |-> igs,
          calls |-> <<Call("client.photo_upload", env.ig_upload, full_caption)>>]
    ELSE [ret |-> [success |-> FALSE, platform |-> "instagram", error |-> env.ig_upload],
          raised |-> TRUE, ig |-> igs,
          calls |-> <<Call("client.photo_upload", env.ig_upload, full_caption)>>]

\* client.photo_upload and the result built from its answer
InstagramService_upload(igs, full_caption, hashtags, env) ==
    IF igs.client = NoneVal
    THEN [ret |-> [success |-> FALSE, platform |-> "instagram", error |-> "AttributeError"],
          raised |-> FALSE, ig |-> igs, calls |-> <<>>]
    ELSE IF env.ig_upload = "ok"
    THEN [ret |-> [success |-> TRUE,
                   platform |-> "instagram",
                   media_id |-> Media.id,
                   media_code |-> Media.code,
                   url |-> InstagramUrl(Media.code),
                   caption_length |-> Len(full_caption),
                   hashtag_count |-> IF TruthyList(hashtags) THEN Len(hashtags.val) ELSE 0],
          raised |-> FALSE, ig |-> igs,
          calls |-> <<Call("client.photo_upload", env.ig_upload, full_caption)>>]
    ELSE \* except Exception as e
         [ret |-> [success |-> FALSE, platform |-> "instagram", error |-> env.ig_upload],
          raised |-> FALSE, ig |-> igs,
          calls |-> <<Call("client.photo_upload", env.ig_upload, full_caption)>>]

\* the try block reporting the length the text had before it was cut
InstagramService_publish_LengthBefore(igs, image_path, caption, hashtags, env) ==
    [InstagramService_upload(igs,
         InstagramTruncate(InstagramFullCaption(caption, hashtags)), hashtags, env)
       EXCEPT !.ret = IF @.success
                      THEN [@ EXCEPT !.caption_length =
                                        Len(InstagramFullCaption(caption, hashtags))]
                      ELSE @]

\* the try block of post_photo, entered with the session igs
InstagramService_publish(igs, image_path, caption, hashtags, env) ==
    InstagramService_upload(igs,
        InstagramTruncate(InstagramFullCaption(caption, hashtags)), hashtags, env)

\* post_photo calling login() a second time when the first attempt failed
InstagramService_ensure_Retry(s, ig, env) ==
    IF ig._logged_in
    THEN [ret |-> TRUE, raised |-> FALSE, ig |-> ig, calls |-> <<>>]
    ELSE IF InstagramService_login(s, ig, env).ret
    THEN InstagramService_login(s, ig, env)
    ELSE [InstagramService_login(s, InstagramService_login(s, ig, env).ig, env)
            EXCEPT !.calls = InstagramService_login(s, ig, env).calls \o @]

\* post_photo logging in again whatever the flag says
InstagramService_ensure_Relogin(s, ig, env) ==
    InstagramService_login(s, [ig EXCEPT !._logged_in = FALSE], env)

\* "Ensure logged in": login() unless the flag is set
InstagramService_ensure(s, ig, env) ==
    IF ~ig._logged_in
    THEN InstagramService_login(s, ig, env)
    ELSE [ret |-> TRUE, raised |-> FALSE, ig |-> ig, calls |-> <<>>]

\* post_photo's outcome from its two halves; given is what the caller passed
InstagramService_join(l, p, given) ==
    [ret |-> p.ret, raised |-> p.raised, ig |-> p.ig,
     calls |-> <<Call("InstagramService.post_photo", "enter", given)>> \o l.calls \o p.calls]

\* post_photo going on to the upload whatever login() returned
InstagramService_after_ensure_Anyway(l, image_path, caption, hashtags, env) ==
    InstagramService_join(l,
        InstagramService_publish(l.ig, image_path, caption, hashtags, env),
        <<caption, hashtags>>)

\* post_photo after "Ensure logged in" gave l
InstagramService_after_ensure(l, image_path, caption, hashtags, env) ==
    IF ~l.ret
    THEN [ret |-> [success |-> FALSE, error |-> "Not logged in to Instagram"],
          raised |-> l.raised, ig |-> l.ig,
          calls |-> <<Call("InstagramService.post_photo", "enter",
                           <<caption, hashtags>>)>> \o l.calls]
    ELSE InstagramService_join(l,
             InstagramService_publish(l.ig, image_path, caption, hashtags, env),
             <<caption, hashtags>>)

InstagramService_post_photo(s, ig, image_path, caption, hashtags, env) ==
    InstagramService_after_ensure(InstagramService_ensure(s, ig, env),
                                  image_path, caption, hashtags, env)

\* answers of instagrapi's Client.logout
LogoutOutcomes == {"ok", "Exception"}

\* logout dropping the client and leaving the flag as it was
InstagramService_logout_DropClient(ig, outcome) ==
    [ret |-> NoneVal, raised |-> FALSE,
     ig |-> [ig EXCEPT !.client = NoneVal],
     calls |-> <<Call("InstagramService.logout", "enter", <<>>)>>]

InstagramService_logout(ig, outcome) ==
    IF ig.client # NoneVal /\ ig._logged_in
    THEN IF outcome = "ok"
         THEN [ret |-> NoneVal, raised |-> FALSE,
               ig |-> [ig EXCEPT !._logged_in = FALSE],
               calls |-> <<Call("InstagramService.logout", "enter", <<>>),
                           Call("client.logout", outcome, <<>>)>>]
         ELSE \* client.logout() raises: nothing catches it
              [ret |-> NoneVal, raised |-> TRUE, ig |-> ig,
               calls |-> <<Call("InstagramService.logout", "enter", <<>>),
                           Call("client.logout", outcome, <<>>)>>]
    ELSE [ret |-> NoneVal, raised |-> FALSE, ig |-> ig,
          calls |-> <<Call("InstagramService.logout", "enter", <<>>)>>]

(* ------------------------------------------------------------------ *)
(* social_media.py: FacebookService                                    *)
(* ------------------------------------------------------------------ *)

FacebookService_init == [graph |-> NoneVal, _initialized |-> FALSE]

\* the try block of initialize: a new GraphAPI, then get_object
FacebookService_initialize_try(s, fb, env) ==
    [ret |-> env.fb_init = "ok",
     raised |-> FALSE,
     fb |-> [graph |-> "GraphAPI",
             _initialized |-> IF env.fb_init = "ok" THEN TRUE ELSE fb._initialized],
     calls |-> <<Call("FacebookService.initialize", "enter", <<>>),
                 Call("facebook.GraphAPI", "ok", <<s.facebook_access_token>>),
                 Call("graph.get_object", env.fb_init, <<s.facebook_page_id>>)>>]

FacebookService_initialize(s, fb, env) ==
    IF ~is_facebook_configured(s)
    THEN [ret |-> FALSE, raised |-> FALSE, fb |-> fb,
          calls |-> <<Call("FacebookService.initialize", "enter", <<>>)>>]
    ELSE IF fb._initialized
    THEN [ret |-> TRUE, raised |-> FALSE, fb |-> fb,
          calls |-> <<Call("FacebookService.initialize", "enter", <<>>)>>]
    ELSE FacebookService_initialize_try(s, fb, env)

\* the try block of post_photo, entered with the session fbs
FacebookService_publish(fbs, image_path, message, env) ==
    IF ~image_path.readable
    THEN \* open() raises inside the try block
         [ret |-> [success |-> FALSE, platform |-> "facebook", error |-> "FileNotFoundError"],
          raised |-> FALSE, fb |-> fbs,
          calls |-> <<Call("open", "FileNotFoundError", <<image_path.name>>)>>]
    ELSE IF fbs.graph = NoneVal
    THEN [ret |-> [success |-> FALSE, platform |-> "facebook", error |-> "AttributeError"],
          raised |-> FALSE, fb |-> fbs,
          calls |-> <<Call("open", "ok", <<image_path.name>>)>>]
    ELSE IF env.fb_put = "ok"
    THEN [ret |-> [success |-> TRUE,
                   platform |-> "facebook",
                   post_id |-> Response.id,
                   message_length |-> Len(message)],
          raised |-> FALSE, fb |-> fbs,
          calls |-> <<Call("open", "ok", <<image_path.name>>),
                      Call("graph.put_photo", env.fb_put, message)>>]
    ELSE \* except Exception as e
         [ret |-> [success |-> FALSE, platform |-> "facebook", error |-> env.fb_put],
          raised |-> FALSE, fb |-> fbs,
          calls |-> <<Call("open", "ok", <<image_path.name>>),
                      Call("graph.put_photo", env.fb_put, message)>>]

\* "Ensure initialized": initialize() unless the flag is set
FacebookService_ensure(s, fb, env) ==
    IF ~fb._initialized
    THEN FacebookService_initialize(s, fb, env)
    ELSE [ret |-> TRUE, raised |-> FALSE, fb |-> fb, calls |-> <<>>]

\* post_photo's outcome from its two halves; given is what the caller passed
FacebookService_join(l, p, given) ==
    [ret |-> p.ret, raised |-> p.raised, fb |-> p.fb,
     calls |-> <<Call("FacebookService.post_photo", "enter", given)>> \o l.calls \o p.calls]

\* post_photo after "Ensure initialized" gave l
FacebookService_after_ensure(l, image_path, message, env) ==
    IF ~l.ret
    THEN [ret |-> [success |-> FALSE, error |-> "Facebook not initialized"],
          raised |-> l.raised, fb |-> l.fb,
          calls |-> <<Call("FacebookService.post_photo", "enter", <<message>>)>> \o l.calls]
    ELSE FacebookService_join(l, FacebookService_publish(l.fb, image_path, message, env),
                              <<message>>)

FacebookService_post_photo(s, fb, image_path, message, env) ==
    FacebookService_after_ensure(FacebookService_ensure(s, fb, env), image_path, message, env)

(* ------------------------------------------------------------------ *)
(* social_media.py: SocialMediaService                                 *)
(* ------------------------------------------------------------------ *)

\* "both" expanded in the other order
NormalizePlatforms_Reversed(platforms) ==
    IF In("both", platforms) THEN <<"facebook", "instagram">> ELSE platforms

\* if "both" in platforms: platforms = ["instagram", "facebook"]
NormalizePlatforms(platforms) ==
    IF In("both", platforms) THEN <<"instagram", "facebook">> ELSE platforms

\* the coordinator's check without the credentials
InstagramAvailable_EnabledOnly(s) == s.instagram_enabled

InstagramAvailable(s) == s.instagram_enabled /\ is_instagram_configured(s)

\* the Facebook block's condition without the enabled flag
FacebookAvailable_ConfiguredOnly(s) == is_facebook_configured(s)

FacebookAvailable(s) == s.facebook_enabled /\ is_facebook_configured(s)

\* results["results"]["instagram"] = ig_result
RecordInstagram(results, r) ==
    [results |-> DictSet(results, "instagram", r.ret),
     raised |-> r.raised, ig |-> r.ig, calls |-> r.calls]

\* a second post_photo on the session the first one left
PostInstagramAgain(first, s, image_path, caption, hashtags, env) ==
    [RecordInstagram(first.results,
         InstagramService_post_photo(s, first.ig, image_path, caption, hashtags, env))
       EXCEPT !.calls = first.calls \o @]

\* the block posting once for every time the list names instagram
PostInstagramBlock_PerOccurrence(s, ig, platforms, results, image_path, caption, hashtags, env) ==
    IF In("instagram", platforms)
    THEN IF InstagramAvailable(s)
         THEN IF Cardinality({i \in 1..Len(platforms) : platforms[i] = "instagram"}) > 1
              THEN PostInstagramAgain(
                       RecordInstagram(results,
                           InstagramService_post_photo(s, ig, image_path, caption,
                                                       hashtags, env)),
                       s, image_path, caption, hashtags, env)
              ELSE RecordInstagram(results,
                       InstagramService_post_photo(s, ig, image_path, caption,
                                                   hashtags, env))
         ELSE [results |-> DictSet(results, "instagram",
                                   [success |-> FALSE,
                                    error |-> "Instagram not configured or disabled"]),
               raised |-> FALSE, ig |-> ig, calls |-> <<>>]
    ELSE [results |-> results, raised |-> FALSE, ig |-> ig, calls |-> <<>>]

\* the block without its else branch: a skipped platform gets no entry
PostInstagramBlock_NoSkipEntry(s, ig, platforms, results, image_path, caption, hashtags, env) ==
    IF In("instagram", platforms) /\ InstagramAvailable(s)
    THEN RecordInstagram(results,
             InstagramService_post_photo(s, ig, image_path, caption, hashtags, env))
    ELSE [results |-> results, raised |-> FALSE, ig |-> ig, calls |-> <<>>]

\* the "Post to Instagram" block
PostInstagramBlock(s, ig, platforms, results, image_path, caption, hashtags, env) ==
    IF In("instagram", platforms)
    THEN IF InstagramAvailable(s)
         THEN RecordInstagram(results,
                  InstagramService_post_photo(s, ig, image_path, caption, hashtags, env))
         ELSE [results |-> DictSet(results, "instagram",
                                   [success |-> FALSE,
                                    error |-> "Instagram not configured or disabled"]),
               raised |-> FALSE, ig |-> ig, calls |-> <<>>]
    ELSE [results |-> results, raised |-> FALSE, ig |-> ig, calls |-> <<>>]

\* the message with the hashtags on the next line, no blank line between
FacebookMessage_SingleNewline(caption, hashtags) ==
    IF TruthyList(hashtags)
    THEN caption \o <<"\n">> \o Join(<<" ">>, hashtags.val)
    ELSE caption

\* fb_message of the "Post to Facebook" block
FacebookMessage(caption, hashtags) ==
    IF TruthyList(hashtags)
    THEN caption \o <<"\n", "\n">> \o Join(<<" ">>, hashtags.val)
    ELSE caption

\* results["results"]["facebook"] = fb_result
RecordFacebook(results, r) ==
    [results |-> DictSet(results, "facebook", r.ret),
     raised |-> r.raised, fb |-> r.fb, calls |-> r.calls]

\* the "Post to Facebook" block
PostFacebookBlock(s, fb, platforms, results, image_path, caption, hashtags, env) ==
    IF In("facebook", platforms)
    THEN IF FacebookAvailable(s)
         THEN RecordFacebook(results,
                  FacebookService_post_photo(s, fb, image_path,
                                             FacebookMessage(caption, hashtags), env))
         ELSE [results |-> DictSet(results, "facebook",
                                   [success |-> FALSE,
                                    error |-> "Facebook not configured or disabled"]),
               raised |-> FALSE, fb |-> fb, calls |-> <<>>]
    ELSE [results |-> results, raised |-> FALSE, fb |-> fb, calls |-> <<>>]

\* all(...) in place of any(...)
OverallSuccess_All(results) ==
    \A i \in 1..Len(results) : GetSuccess(results[i].value)

\* any(r.get("success", False) for r in results.values())
OverallSuccess(results) ==
    \E i \in 1..Len(results) : GetSuccess(results[i].value)

KeysOf(picked) == [i \in 1..Len(picked) |-> picked[i].key]

IsSuccess(e) == GetSuccess(e.value)

IsFailure(e) == ~GetSuccess(e.value)

\* [platform for platform, result in results.items() if result.get("success", False)]
Successful(results) == KeysOf(SelectSeq(results, IsSuccess))

\* the failed list without its condition: every platform of results
Failed_Every(results) == KeysOf(results)

\* [platform for platform, result in results.items() if not result.get("success", False)]
Failed(results) == KeysOf(SelectSeq(results, IsFailure))

Summary(platforms, results) ==
    [successful |-> Successful(results),
     failed |-> Failed(results),
     total_requested |-> Len(platforms),
     total_successful |-> Len(Successful(results)),
     total_failed |-> Len(Failed(results))]

\* the dictionary post_to_platforms returns
Report(platforms, results) ==
    [requested_platforms |-> platforms,
     results |-> results,
     overall_success |-> OverallSuccess(results),
     summary |-> Summary(platforms, results)]

\* stands for "no value": the call was left by an exception
NoReport == [requested_platforms |-> <<>>, results |-> EmptyDict,
             overall_success |-> FALSE,
             summary |-> [successful |-> <<>>, failed |-> <<>>, total_requested |-> 0,
                          total_successful |-> 0, total_failed |-> 0]]

\* post_to_platforms after both blocks
PostToPlatformsFinish(platforms, a, b) ==
    IF b.raised
    THEN [ret |-> NoReport, raised |-> TRUE, ig |-> a.ig, fb |-> b.fb,
          calls |-> a.calls \o b.calls]
    ELSE [ret |-> Report(platforms, b.results),
          raised |-> FALSE, ig |-> a.ig, fb |-> b.fb, calls |-> a.calls \o b.calls]

\* the coordinator giving up after a failed Instagram post
PostToPlatformsAfterInstagram_FailFast(s, fb, platforms, a, image_path, caption, hashtags, env) ==
    IF a.raised
    THEN [ret |-> NoReport, raised |-> TRUE, ig |-> a.ig, fb |-> fb, calls |-> a.calls]
    ELSE IF \E i \in 1..Len(a.results) : ~GetSuccess(a.results[i].value)
    THEN [ret |-> Report(platforms, a.results),
          raised |-> FALSE, ig |-> a.ig, fb |-> fb, calls |-> a.calls]
    ELSE PostToPlatformsFinish(platforms, a,
             PostFacebookBlock(s, fb, platforms, a.results, image_path,
                               caption, hashtags, env))

\* post_to_platforms after the Instagram block gave a
PostToPlatformsAfterInstagram(s, fb, platforms, a, image_path, caption, hashtags, env) ==
    IF a.raised
    THEN [ret |-> NoReport, raised |-> TRUE, ig |-> a.ig, fb |-> fb, calls |-> a.calls]
    ELSE PostToPlatformsFinish(platforms, a,
             PostFacebookBlock(s, fb, platforms, a.results, image_path,
                               caption, hashtags, env))

\* post_to_platforms on the normalized list
PostToPlatformsNormalized(s, ig, fb, platforms, image_path, caption, hashtags, env) ==
    PostToPlatformsAfterInstagram(s, fb, platforms,
        PostInstagramBlock(s, ig, platforms, EmptyDict, image_path, caption, hashtags, env),
        image_path, caption, hashtags, env)

SocialMediaService_post_to_platforms(s, ig, fb, requested, image_path, caption, hashtags, env) ==
    PostToPlatformsNormalized(s, ig, fb, NormalizePlatforms(requested),
                              image_path, caption, hashtags, env)

SocialMediaService_get_available_platforms(s) == get_enabled_platforms(s)

(* ------------------------------------------------------------------ *)
(* Inputs of the callers                                               *)
(* ------------------------------------------------------------------ *)

PlatformNames == {"instagram", "facebook", "both", "tiktok"}

KnownNames == {"instagram", "facebook", "both"}

PlatformLists == UNION {[1..n -> PlatformNames] : n \in 0..MaxPlatforms}

Images == {[name |-> "product.jpg", readable |-> TRUE],
           [name |-> "missing.jpg", readable |-> FALSE]}

Hello == <<"H", "e", "l", "l", "o">>

TagA == <<"#", "a">>

TagB == <<"#", "b">>

Captions == {Hello}

HashtagLists == {NoneOpt, Some(<<TagA, TagB>>)}

TextHashtagLists == {NoneOpt, Some(<<>>), Some(<<TagA>>), Some(<<TagA, TagB>>)}

Letters == <<"x", "y", "z">>

\* a text of n characters, different at neighbouring positions
LongText(n) == [i \in 1..n |-> Letters[(i % 3) + 1]]

\* "\n\n#a #b" is seven characters long
LongCaptions ==
    {LongText(n) : n \in (InstagramCaptionLimit - 7 - Slack)..(InstagramCaptionLimit + Slack)}

TextCaptions == {<<>>, Hello} \cup LongCaptions

TextPlatformLists == {<<"both">>, <<"instagram">>, <<"facebook">>}

(* ------------------------------------------------------------------ *)
(* The callers: one invocation at a time, its outcome kept in `last`   *)
(* until the caller has taken it                                       *)
(* ------------------------------------------------------------------ *)

NoArgs == [platforms |-> <<>>, image_path |-> [name |-> "", readable |-> FALSE],
           caption |-> <<>>, hashtags |-> NoneOpt]

\* the caller's platforms and hashtags list objects when the call is over:
\* post_to_platforms rebinds its local name `platforms` for "both" and only
\* reads hashtags (join, len, truthiness), so both lists are as passed
CallerListsAfter(platforms, hashtags) == [platforms |-> platforms, hashtags |-> hashtags]

NoCall == [op |-> "none", args |-> NoArgs,
           caller |-> CallerListsAfter(<<>>, NoneOpt),
           pre |-> [instagram |-> InstagramService_init, facebook |-> FacebookService_init],
           ret |-> NoneVal, raised |-> FALSE, calls |-> <<>>, blocked |-> FALSE]

\* where a request thread stands in post_to_platforms: the statement it is
\* about to run, whether it has made a client in this call, and the clients
\* it uploaded on (none or one)
ThreadIdle == [pc |-> "idle", made |-> FALSE, uploaded |-> <<>>]

NoThreads == [t \in 1..NumThreads |-> ThreadIdle]

Invocation(op, args, ret, raised, calls) ==
    [op |-> op, args |-> args,
     caller |-> CallerListsAfter(args.platforms, args.hashtags),
     pre |-> [instagram |-> instagram, facebook |-> facebook],
     ret |-> ret, raised |-> raised, calls |-> calls, blocked |-> FALSE]

\* the answers the platforms can give to the remote calls in ops
EnvChoices(ops) ==
    [ig_login : IF "client.login" \in ops THEN LoginOutcomes ELSE {"ok"},
     ig_upload : IF "client.photo_upload" \in ops THEN UploadOutcomes ELSE {"ok"},
     fb_init : IF "graph.get_object" \in ops THEN InitOutcomes ELSE {"ok"},
     fb_put : IF "graph.put_photo" \in ops THEN PutOutcomes ELSE {"ok"}]

\* the configurations of Spec: the Instagram password only beside a username
\* (so: none, username alone, or both), each other credential pair present
\* or absent as a whole
CoordinatorSettings ==
    {s \in SettingsSpace :
        /\ Truthy(s.instagram_password) => Truthy(s.instagram_username)
        /\ s.instagram_account_id = s.instagram_access_token
        /\ s.facebook_page_id = s.facebook_access_token}

Init ==
    /\ settings \in CoordinatorSettings
    /\ instagram = InstagramService_init
    /\ facebook = FacebookService_init
    /\ last = NoCall
    /\ threads = NoThreads

\* the invocation ends: the adapters' fields and the outcome are as r says
Commit(op, args, env, r) ==
    /\ env \in EnvChoices(Ops(r.calls))
    /\ instagram' = (IF "ig" \in DOMAIN r THEN r.ig ELSE instagram)
    /\ facebook' = (IF "fb" \in DOMAIN r THEN r.fb ELSE facebook)
    /\ last' = Invocation(op, args, r.ret, r.raised, r.calls)
    /\ UNCHANGED <<settings, threads>>

PostToPlatforms(platforms, image_path, caption, hashtags) ==
    /\ last.op = "none"
    /\ \E env \in EnvChoices(Ops(SocialMediaService_post_to_platforms(settings, instagram,
                     facebook, platforms, image_path, caption, hashtags, EnvOk).calls)) :
          Commit("post_to_platforms",
                 [platforms |-> platforms, image_path |-> image_path,
                  caption |-> caption, hashtags |-> hashtags],
                 env,
                 SocialMediaService_post_to_platforms(settings, instagram, facebook,
                     platforms, image_path, caption, hashtags, env))

Login ==
    /\ last.op = "none"
    /\ \E env \in EnvChoices(Ops(InstagramService_login(settings, instagram, EnvOk).calls)) :
          Commit("login", NoArgs, env, InstagramService_login(settings, instagram, env))

Initialize ==
    /\ last.op = "none"
    /\ \E env \in EnvChoices(Ops(FacebookService_initialize(settings, facebook, EnvOk).calls)) :
          Commit("initialize", NoArgs, env,
                 FacebookService_initialize(settings, facebook, env))

InstagramPostPhoto(image_path, caption, hashtags) ==
    /\ last.op = "none"
    /\ \E env \in EnvChoices(Ops(InstagramService_post_photo(settings, instagram,
                     image_path, caption, hashtags, EnvOk).calls)) :
          Commit("instagram.post_photo",
                 [platforms |-> <<>>, image_path |-> image_path,
                  caption |-> caption, hashtags |-> hashtags],
                 env,
                 InstagramService_post_photo(settings, instagram, image_path,
                                             caption, hashtags, env))

FacebookPostPhoto(image_path, message) ==
    /\ last.op = "none"
    /\ \E env \in EnvChoices(Ops(FacebookService_post_photo(settings, facebook,
                     image_path, message, EnvOk).calls)) :
          Commit("facebook.post_photo",
                 [platforms |-> <<>>, image_path |-> image_path,
                  caption |-> message, hashtags |-> NoneOpt],
                 env,
                 FacebookService_post_photo(settings, facebook, image_path, message, env))

Logout ==
    /\ last.op = "none"
    /\ \E outcome \in IF instagram.client # NoneVal /\ instagram._logged_in
                      THEN LogoutOutcomes ELSE {"ok"} :
          Commit("logout", NoArgs, EnvOk, InstagramService_logout(instagram, outcome))

GetAvailablePlatforms ==
    /\ last.op = "none"
    /\ Commit("get_available_platforms", NoArgs, EnvOk,
              [ret |-> SocialMediaService_get_available_platforms(settings),
               raised |-> FALSE, calls |-> <<>>])

\* the caller takes the outcome of an invocation that has ended
Return ==
    /\ last.op # "none"
    /\ ~last.blocked
    /\ last' = NoCall
    /\ UNCHANGED <<settings, instagram, facebook, threads>>

Next ==
    \/ \E platforms \in PlatformLists, image_path \in Images,
          caption \in Captions, hashtags \in HashtagLists :
            PostToPlatforms(platforms, image_path, caption, hashtags)
    \/ Login
    \/ Initialize
    \/ \E image_path \in Images, caption \in Captions, hashtags \in HashtagLists :
            InstagramPostPhoto(image_path, caption, hashtags)
    \/ \E image_path \in Images, message \in Captions :
            FacebookPostPhoto(image_path, message)
    \/ Logout
    \/ GetAvailablePlatforms
    \/ Return

Spec == Init /\ [][Next]_vars

(* Text shaping: every credential present, captions around the cap *)

InitText ==
    /\ settings \in {s \in SettingsSpace :
                       \A f \in {"instagram_username", "instagram_password",
                                 "instagram_access_token", "instagram_account_id",
                                 "facebook_access_token", "facebook_page_id"} :
                          s[f] = "cred"}
    /\ instagram = InstagramService_init
    /\ facebook = FacebookService_init
    /\ last = NoCall
    /\ threads = NoThreads

NextText ==
    \/ \E platforms \in TextPlatformLists, caption \in TextCaptions,
          hashtags \in TextHashtagLists :
            PostToPlatforms(platforms, [name |-> "product.jpg", readable |-> TRUE],
                            caption, hashtags)
    \/ \E caption \in TextCaptions, hashtags \in TextHashtagLists :
            InstagramPostPhoto([name |-> "product.jpg", readable |-> TRUE], caption, hashtags)
    \/ Return

SpecText == InitText /\ [][NextText]_vars

(* ------------------------------------------------------------------ *)
(* Properties                                                          *)
(* ------------------------------------------------------------------ *)

IsPost == last.op = "post_to_platforms"

Concrete == {"instagram", "facebook"}

\* the requested platforms with "both" replaced by instagram and facebook
Expanded(platforms) ==
    IF "both" \in Range(platforms) THEN Concrete ELSE Range(platforms)

\* enabled and credential-complete, as the data model defines availability
CredentialComplete(p) ==
    IF p = "instagram"
    THEN \/ Truthy(settings.instagram_username) /\ Truthy(settings.instagram_password)
         \/ Truthy(settings.instagram_access_token) /\ Truthy(settings.instagram_account_id)
    ELSE Truthy(settings.facebook_access_token) /\ Truthy(settings.facebook_page_id)

Enabled(p) ==
    IF p = "instagram" THEN settings.instagram_enabled ELSE settings.facebook_enabled

Available(p) == Enabled(p) /\ CredentialComplete(p)

Results == last.ret.results

\* results has an entry for p whose success field is succ
HasEntry(p, succ) ==
    \E i \in 1..Len(Results) : Results[i].key = p /\ Results[i].value.success = succ

\* the calls of the invocation that belong to platform p
AdapterOps(p) ==
    IF p = "instagram"
    THEN {"InstagramService.post_photo", "InstagramService.login", "InstaClient",
          "client.login", "client.photo_upload"}
    ELSE {"FacebookService.post_photo", "FacebookService.initialize", "facebook.GraphAPI",
          "graph.get_object", "graph.put_photo"}

RemoteOps(p) ==
    IF p = "instagram"
    THEN {"client.login", "client.photo_upload"}
    ELSE {"graph.get_object", "graph.put_photo"}

RemoteFailed(p) ==
    \E i \in 1..Len(last.calls) :
        last.calls[i].op \in RemoteOps(p) /\ last.calls[i].outcome # "ok"

RemoteOk(p) ==
    \A i \in 1..Len(last.calls) :
        last.calls[i].op \in RemoteOps(p) => last.calls[i].outcome = "ok"

\* C1: every concrete platform of the expanded request is a key of results
\* exactly once, skipped platforms included, and results has no other key.
C1_ExpandedKeys ==
    IsPost =>
        /\ ~last.raised
        /\ \A p \in Expanded(last.args.platforms) \cap Concrete : KeyCount(Results, p) = 1
        /\ Keys(Results) \subseteq Expanded(last.args.platforms) \cap Concrete
        /\ Len(Results) = Cardinality(Keys(Results))

\* both requested, Instagram skipped as unavailable, Facebook posted
C1_Witness ==
    /\ IsPost
    /\ Expanded(last.args.platforms) = Concrete
    /\ ~Available("instagram")
    /\ Keys(Results) = Concrete
    /\ HasEntry("facebook", TRUE)

\* C2: overall_success is true exactly when some entry of results succeeded.
C2_OverallIffAny ==
    IsPost /\ ~last.raised =>
        (last.ret.overall_success = TRUE
            <=> \E i \in 1..Len(Results) : Results[i].value.success = TRUE)

\* one entry failed, the other succeeded, and the report says success
C2_Witness ==
    /\ IsPost
    /\ HasEntry("instagram", FALSE)
    /\ HasEntry("facebook", TRUE)
    /\ last.ret.overall_success = TRUE

\* C3: an unavailable requested platform gets the "not configured or
\* disabled" failure and none of its adapter's methods or remote calls run.
C3_UnavailableSkipped ==
    IsPost =>
        \A p \in Expanded(last.args.platforms) \cap Concrete :
            ~Available(p) =>
                /\ \E i \in 1..Len(Results) :
                      /\ Results[i].key = p
                      /\ Results[i].value.success = FALSE
                      /\ Results[i].value.error =
                            (IF p = "instagram"
                             THEN "Instagram not configured or disabled"
                             ELSE "Facebook not configured or disabled")
                /\ Ops(last.calls) \cap AdapterOps(p) = {}

\* Instagram enabled with incomplete credentials is skipped, Facebook is posted
C3_Witness ==
    /\ IsPost
    /\ "instagram" \in Expanded(last.args.platforms)
    /\ settings.instagram_enabled
    /\ ~CredentialComplete("instagram")
    /\ HasEntry("instagram", FALSE)
    /\ "graph.put_photo" \in Ops(last.calls)

\* C4: with both platforms requested and available, Facebook's adapter is
\* always invoked; a failed Instagram remote call with Facebook's remote calls
\* succeeding gives instagram false, facebook true, overall true, and the
\* same with the platforms exchanged.
C4_Independent ==
    IsPost /\ Expanded(last.args.platforms) = Concrete
           /\ Available("instagram") /\ Available("facebook") =>
        /\ "InstagramService.post_photo" \in Ops(last.calls)
        /\ "FacebookService.post_photo" \in Ops(last.calls)
        /\ (RemoteFailed("instagram") /\ RemoteOk("facebook")
                /\ last.args.image_path.readable =>
              /\ "graph.put_photo" \in Ops(last.calls)
              /\ HasEntry("instagram", FALSE)
              /\ HasEntry("facebook", TRUE)
              /\ last.ret.overall_success = TRUE)
        /\ (RemoteFailed("facebook") /\ RemoteOk("instagram") =>
              /\ "client.photo_upload" \in Ops(last.calls)
              /\ HasEntry("facebook", FALSE)
              /\ HasEntry("instagram", TRUE)
              /\ last.ret.overall_success = TRUE)

\* Instagram's upload failed and Facebook's photo was put
C4_Witness ==
    /\ IsPost
    /\ \E i \in 1..Len(last.calls) :
          last.calls[i].op = "client.photo_upload" /\ last.calls[i].outcome # "ok"
    /\ \E i \in 1..Len(last.calls) :
          last.calls[i].op = "graph.put_photo" /\ last.calls[i].outcome = "ok"
    /\ HasEntry("instagram", FALSE)
    /\ HasEntry("facebook", TRUE)
    /\ last.ret.overall_success = TRUE

\* C5: a request naming only known platforms returns a report and raises
\* nothing; when every platform failed, overall_success is false and every
\* resolved platform has a failure entry with an error.
C5_NeverRaises ==
    IsPost /\ Range(last.args.platforms) \subseteq KnownNames =>
        /\ ~last.raised
        /\ Keys(Results) = Expanded(last.args.platforms)
        /\ ((\A i \in 1..Len(Results) : Results[i].value.success = FALSE) =>
              /\ last.ret.overall_success = FALSE
              /\ \A p \in Expanded(last.args.platforms) :
                    \E i \in 1..Len(Results) :
                        /\ Results[i].key = p
                        /\ Results[i].value.success = FALSE
                        /\ "error" \in DOMAIN Results[i].value
                        /\ Results[i].value.error # "")

\* both platforms available and both remote publishes failed
C5_Witness ==
    /\ IsPost
    /\ ~last.raised
    /\ \E i \in 1..Len(last.calls) :
          last.calls[i].op = "client.photo_upload" /\ last.calls[i].outcome # "ok"
    /\ \E i \in 1..Len(last.calls) :
          last.calls[i].op = "graph.put_photo" /\ last.calls[i].outcome # "ok"
    /\ HasEntry("instagram", FALSE)
    /\ HasEntry("facebook", FALSE)
    /\ last.ret.overall_success = FALSE

\* C6: a request holding an identifier outside the known set raises instead
\* of returning a report, and the identifier is no key of results.
C6_UnknownRaises ==
    IsPost /\ ~(Range(last.args.platforms) \subseteq KnownNames) =>
        /\ last.raised
        /\ Keys(Results) \cap (Range(last.args.platforms) \ KnownNames) = {}

\* C7: ["both"] and ["instagram", "facebook"] give the same report from the
\* same configuration, sessions and platform answers, and "both" is no key.
C7_BothIsShorthand ==
    /\ last.op = "none" =>
          \A image_path \in Images, caption \in Captions,
             hashtags \in HashtagLists, env \in EnvSpace :
                SocialMediaService_post_to_platforms(settings, instagram, facebook,
                    <<"both">>, image_path, caption, hashtags, env)
                = SocialMediaService_post_to_platforms(settings, instagram, facebook,
                    <<"instagram", "facebook">>, image_path, caption, hashtags, env)
    /\ IsPost /\ "both" \in Range(last.args.platforms) =>
          /\ "both" \notin Keys(Results)
          /\ Keys(Results) = Concrete
          /\ last.ret.requested_platforms = <<"instagram", "facebook">>

\* ["both"] was posted and both platforms have an entry
C7_Witness ==
    /\ IsPost
    /\ last.args.platforms = <<"both">>
    /\ HasEntry("instagram", TRUE)
    /\ HasEntry("facebook", TRUE)
    /\ last.ret.requested_platforms = <<"instagram", "facebook">>

\* the text the hashtag shaping gives: the caption, a blank line, the
\* hashtags joined by single spaces; the caption alone without hashtags
Shaped(caption, hashtags) ==
    IF hashtags.some /\ hashtags.val # <<>>
    THEN caption \o <<"\n", "\n">> \o Join(<<" ">>, hashtags.val)
    ELSE caption

Ellipsis == <<".", ".", ".">>

IsInstagramPublish == last.op \in {"post_to_platforms", "instagram.post_photo"}

\* the invocation's Instagram result is a success
InstagramSucceeded ==
    IF last.op = "post_to_platforms" THEN HasEntry("instagram", TRUE)
    ELSE last.ret.success = TRUE

\* C8: the caption handed to photo_upload is the combined text when that has
\* at most 2200 characters, else its first 2197 characters and "...", 2200
\* characters in all; truncating it again changes nothing; and a long text
\* alone never makes the result a failure.
C8_Truncation ==
    IsInstagramPublish =>
        \A i \in 1..Len(last.calls) :
            last.calls[i].op = "client.photo_upload" =>
                /\ (Len(Shaped(last.args.caption, last.args.hashtags))
                        <= InstagramCaptionLimit =>
                      last.calls[i].arg = Shaped(last.args.caption, last.args.hashtags))
                /\ (Len(Shaped(last.args.caption, last.args.hashtags))
                        > InstagramCaptionLimit =>
                      /\ last.calls[i].arg =
                            SubSeq(Shaped(last.args.caption, last.args.hashtags),
                                   1, InstagramCaptionLimit - 3) \o Ellipsis
                      /\ Len(last.calls[i].arg) = InstagramCaptionLimit)
                /\ InstagramTruncate(last.calls[i].arg) = last.calls[i].arg
                /\ (last.calls[i].outcome = "ok" => InstagramSucceeded)

\* a combined text over the cap was uploaded cut to the cap, and succeeded
C8_Witness ==
    /\ IsInstagramPublish
    /\ Len(Shaped(last.args.caption, last.args.hashtags)) > InstagramCaptionLimit
    /\ \E i \in 1..Len(last.calls) :
          /\ last.calls[i].op = "client.photo_upload"
          /\ last.calls[i].outcome = "ok"
          /\ Len(last.calls[i].arg) = InstagramCaptionLimit
          /\ SubSeq(last.calls[i].arg, InstagramCaptionLimit - 2, InstagramCaptionLimit)
                = Ellipsis
    /\ InstagramSucceeded

\* C9 as stated: every text submitted to a platform is the shaped text.
C9_SubmittedIsShaped ==
    IsPost =>
        \A i \in 1..Len(last.calls) :
            last.calls[i].op \in {"client.photo_upload", "graph.put_photo"} =>
                last.calls[i].arg = Shaped(last.args.caption, last.args.hashtags)

\* C9 amended: the text put to Facebook is the shaped text; the text uploaded
\* to Instagram is the shaped text when that has at most 2200 characters, and
\* else its first 2197 characters followed by "...".
C9_SubmittedIsShapedUpToCap ==
    IsPost =>
        \A i \in 1..Len(last.calls) :
            /\ last.calls[i].op = "graph.put_photo" =>
                  last.calls[i].arg = Shaped(last.args.caption, last.args.hashtags)
            /\ last.calls[i].op = "client.photo_upload" =>
                  last.calls[i].arg =
                     (IF Len(Shaped(last.args.caption, last.args.hashtags))
                            <= InstagramCaptionLimit
                      THEN Shaped(last.args.caption, last.args.hashtags)
                      ELSE SubSeq(Shaped(last.args.caption, last.args.hashtags),
                                  1, InstagramCaptionLimit - 3) \o Ellipsis)

\* "Hello" with #a and #b went to both platforms as "Hello\n\n#a #b"
C9_Witness ==
    /\ IsPost
    /\ last.args.caption = Hello
    /\ last.args.hashtags = Some(<<TagA, TagB>>)
    /\ \E i \in 1..Len(last.calls) :
          /\ last.calls[i].op = "client.photo_upload"
          /\ last.calls[i].arg =
                <<"H", "e", "l", "l", "o", "\n", "\n", "#", "a", " ", "#", "b">>
    /\ \E i \in 1..Len(last.calls) :
          /\ last.calls[i].op = "graph.put_photo"
          /\ last.calls[i].arg =
                <<"H", "e", "l", "l", "o", "\n", "\n", "#", "a", " ", "#", "b">>

\* C10: post_photo on an adapter that was authenticated when the invocation
\* began makes no authentication call, and Instagram's goes on to the upload.
C10_SessionReuse ==
    /\ (last.pre.instagram._logged_in
            /\ "InstagramService.post_photo" \in Ops(last.calls) =>
          /\ Ops(last.calls) \cap {"InstagramService.login", "InstaClient", "client.login"} = {}
          /\ "client.photo_upload" \in Ops(last.calls))
    /\ (last.pre.facebook._initialized
            /\ "FacebookService.post_photo" \in Ops(last.calls) =>
          /\ Ops(last.calls) \cap {"FacebookService.initialize", "facebook.GraphAPI",
                                   "graph.get_object"} = {}
          /\ (last.args.image_path.readable => "graph.put_photo" \in Ops(last.calls)))

\* both adapters were authenticated before the call and both published
C10_Witness ==
    /\ IsPost
    /\ last.pre.instagram._logged_in
    /\ last.pre.facebook._initialized
    /\ "client.photo_upload" \in Ops(last.calls)
    /\ "graph.put_photo" \in Ops(last.calls)
    /\ "client.login" \notin Ops(last.calls)
    /\ "graph.get_object" \notin Ops(last.calls)

\* the invocation made the call op and the platform answered it with outcome
Answered(op, outcome) ==
    \E i \in 1..Len(last.calls) :
        last.calls[i].op = op /\ last.calls[i].outcome = outcome

\* the result of the invocation for Facebook is a success
FacebookSucceeded ==
    IF last.op = "post_to_platforms" THEN HasEntry("facebook", TRUE)
    ELSE last.ret.success = TRUE

\* C11: when the publish of an authenticated adapter fails with an
\* authentication error (LoginRequired on the upload, OAuthException on
\* put_photo) the call's result is a failure and the adapter's flag is false
\* afterwards.
C11_DowngradeOnAuthError ==
    /\ Answered("client.photo_upload", "LoginRequired") =>
          ~InstagramSucceeded /\ ~instagram._logged_in
    /\ Answered("graph.put_photo", "OAuthException") =>
          ~FacebookSucceeded /\ ~facebook._initialized

\* C12: an invocation whose authentication call was answered with an error
\* leaves the adapter's flag false; and post_photo on a configured adapter
\* whose flag was false when the invocation began makes a new authentication
\* call, followed by the publish call when the platform answers it with ok.
C12_RetryOnNextCall ==
    /\ (\E i \in 1..Len(last.calls) :
            last.calls[i].op = "client.login" /\ last.calls[i].outcome # "ok") =>
          ~instagram._logged_in
    /\ (\E i \in 1..Len(last.calls) :
            last.calls[i].op = "graph.get_object" /\ last.calls[i].outcome # "ok") =>
          ~facebook._initialized
    /\ ("InstagramService.post_photo" \in Ops(last.calls)
            /\ ~last.pre.instagram._logged_in /\ CredentialComplete("instagram") =>
          /\ "client.login" \in Ops(last.calls)
          /\ (Answered("client.login", "ok") =>
                "client.photo_upload" \in Ops(last.calls) /\ instagram._logged_in))
    /\ ("FacebookService.post_photo" \in Ops(last.calls)
            /\ ~last.pre.facebook._initialized /\ CredentialComplete("facebook") =>
          /\ "graph.get_object" \in Ops(last.calls)
          /\ (Answered("graph.get_object", "ok") /\ last.args.image_path.readable =>
                "graph.put_photo" \in Ops(last.calls) /\ facebook._initialized))

\* Facebook's earlier initialize had failed (a graph object, the flag false);
\* this post_to_platforms initialized again, was answered ok and put the photo
C12_Witness ==
    /\ IsPost
    /\ last.pre.facebook.graph # NoneVal
    /\ ~last.pre.facebook._initialized
    /\ Answered("graph.get_object", "ok")
    /\ Answered("graph.put_photo", "ok")
    /\ facebook._initialized
    /\ HasEntry("facebook", TRUE)

\* how many times the invocation made the call op
CountOp(op) == Cardinality({i \in 1..Len(last.calls) : last.calls[i].op = op})

\* C13: no invocation, of post_photo on either adapter or of
\* post_to_platforms, makes more than one authentication call per platform.
C13_OneAttempt ==
    /\ CountOp("client.login") <= 1
    /\ CountOp("InstagramService.login") <= 1
    /\ CountOp("graph.get_object") <= 1
    /\ CountOp("FacebookService.initialize") <= 1

\* both platforms refused the authentication, each was asked once, and the
\* report holds two failures
C13_Witness ==
    /\ IsPost
    /\ \E i \in 1..Len(last.calls) :
          last.calls[i].op = "client.login" /\ last.calls[i].outcome # "ok"
    /\ \E i \in 1..Len(last.calls) :
          last.calls[i].op = "graph.get_object" /\ last.calls[i].outcome # "ok"
    /\ CountOp("client.login") = 1
    /\ CountOp("graph.get_object") = 1
    /\ HasEntry("instagram", FALSE)
    /\ HasEntry("facebook", FALSE)

\* the invocation's result for platform p is a failure with the error err
FailedWith(p, err) ==
    IF IsPost
    THEN \E i \in 1..Len(Results) :
            /\ Results[i].key = p
            /\ Results[i].value.success = FALSE
            /\ Results[i].value.error = err
    ELSE last.ret.success = FALSE /\ last.ret.error = err

\* C14: the publish call of an adapter comes after its last authentication
\* call, on an adapter whose flag was set before the invocation or by an
\* authentication call answered ok in it; when the authentication of a
\* post_photo fails, the result is the failure "Not logged in to Instagram" /
\* "Facebook not initialized" and no publish call is made.
C14_AuthBeforePublish ==
    /\ \A i \in 1..Len(last.calls) :
          last.calls[i].op = "client.photo_upload" =>
              /\ \A j \in 1..Len(last.calls) : last.calls[j].op = "client.login" => j < i
              /\ \/ last.pre.instagram._logged_in
                 \/ \E j \in 1..(i - 1) :
                       last.calls[j].op = "client.login" /\ last.calls[j].outcome = "ok"
              /\ instagram._logged_in
    /\ \A i \in 1..Len(last.calls) :
          last.calls[i].op = "graph.put_photo" =>
              /\ \A j \in 1..Len(last.calls) : last.calls[j].op = "graph.get_object" => j < i
              /\ \/ last.pre.facebook._initialized
                 \/ \E j \in 1..(i - 1) :
                       last.calls[j].op = "graph.get_object" /\ last.calls[j].outcome = "ok"
              /\ facebook._initialized
    /\ ("InstagramService.post_photo" \in Ops(last.calls)
            /\ (\E i \in 1..Len(last.calls) :
                    last.calls[i].op = "client.login" /\ last.calls[i].outcome # "ok") =>
          /\ "client.photo_upload" \notin Ops(last.calls)
          /\ FailedWith("instagram", "Not logged in to Instagram"))
    /\ ("FacebookService.post_photo" \in Ops(last.calls)
            /\ (\E i \in 1..Len(last.calls) :
                    last.calls[i].op = "graph.get_object" /\ last.calls[i].outcome # "ok") =>
          /\ Ops(last.calls) \cap {"open", "graph.put_photo"} = {}
          /\ FailedWith("facebook", "Facebook not initialized"))

\* Instagram's login was refused and nothing was uploaded; Facebook was
\* initialized in the same call and its photo put afterwards
C14_Witness ==
    /\ IsPost
    /\ Answered("client.login", "LoginRequired")
    /\ "client.photo_upload" \notin Ops(last.calls)
    /\ FailedWith("instagram", "Not logged in to Instagram")
    /\ ~last.pre.facebook._initialized
    /\ Answered("graph.get_object", "ok")
    /\ "graph.put_photo" \in Ops(last.calls)

\* what an authentication attempt of platform p does against the platform
AuthenticationOps(p) ==
    IF p = "instagram"
    THEN {"InstaClient", "client.login"}
    ELSE {"facebook.GraphAPI", "graph.get_object"}

\* C15: no invocation, login / initialize and a direct post_photo included,
\* makes an authentication attempt for a platform that is not available, be
\* it disabled or without complete credentials.
C15_FailFastWhenUnavailable ==
    \A p \in Concrete :
        ~Available(p) => Ops(last.calls) \cap AuthenticationOps(p) = {}

\* the per-platform results the invocation produced: the entries of a
\* report, or the dict a direct post_photo returned
Entries ==
    IF IsPost THEN {Results[i].value : i \in 1..Len(Results)}
    ELSE IF last.op \in {"instagram.post_photo", "facebook.post_photo"} THEN {last.ret}
    ELSE {}

PostIdKeys == {"media_id", "post_id"}

UrlKeys == {"url"}

LengthKeys == {"caption_length", "message_length"}

\* C16: every success result carries the platform's post identifier, a
\* canonical URL and the content length, the URL being built from nothing but
\* identifiers the platform returned.
C16_SuccessCarriesAll ==
    \A e \in Entries :
        e.success = TRUE =>
            /\ DOMAIN e \cap PostIdKeys # {}
            /\ DOMAIN e \cap UrlKeys # {}
            /\ DOMAIN e \cap LengthKeys # {}
            /\ (e.platform = "instagram" =>
                  e.url = <<"https://www.instagram.com/p/", e.media_code, "/">>)

\* C17: a failure result carries the platform identifier and an error and
\* neither a post identifier nor a URL, on every failure path; a success
\* result carries no error.
C17_OneVariant ==
    \A e \in Entries :
        /\ e.success = FALSE =>
              /\ "platform" \in DOMAIN e
              /\ "error" \in DOMAIN e
              /\ DOMAIN e \cap (PostIdKeys \cup UrlKeys) = {}
        /\ e.success = TRUE => "error" \notin DOMAIN e

(* Availability: every configuration, asked for its platforms *)

InitConfig ==
    /\ settings \in SettingsSpace
    /\ instagram = InstagramService_init
    /\ facebook = FacebookService_init
    /\ last = NoCall
    /\ threads = NoThreads

NextConfig ==
    \/ GetAvailablePlatforms
    \/ Return

SpecConfig == InitConfig /\ [][NextConfig]_vars

\* C18: get_available_platforms() lists a platform exactly when its enabled
\* flag is true and its credentials are complete: username and password, or
\* access token and account id, for Instagram; access token and page id for
\* Facebook. It lists nothing else and nothing twice.
C18_AvailabilityTable ==
    last.op = "get_available_platforms" =>
        /\ \A p \in Concrete : In(p, last.ret) <=> Available(p)
        /\ Range(last.ret) \subseteq Concrete
        /\ Len(last.ret) = Cardinality(Range(last.ret))

\* Instagram complete by token and account id alone is listed; Facebook,
\* enabled with a token but no page id, is not
C18_Witness ==
    /\ last.op = "get_available_platforms"
    /\ settings.instagram_enabled /\ settings.facebook_enabled
    /\ ~Truthy(settings.instagram_username) /\ ~Truthy(settings.instagram_password)
    /\ Truthy(settings.instagram_access_token) /\ Truthy(settings.instagram_account_id)
    /\ Truthy(settings.facebook_access_token) /\ ~Truthy(settings.facebook_page_id)
    /\ last.ret = <<"instagram">>

\* the call log's name for the post_photo of platform p's adapter
PostPhotoOp(p) ==
    IF p = "instagram" THEN "InstagramService.post_photo" ELSE "FacebookService.post_photo"

\* C19: in a post_to_platforms call, whatever the requested list (duplicates,
\* "both" beside concrete names), the adapter's post_photo is invoked exactly
\* once for each platform of the resolved set that get_available_platforms()
\* lists, and no method of an adapter whose platform is outside the resolved
\* set is invoked.
C19_OncePerPlatform ==
    IsPost =>
        \A p \in Concrete :
            /\ (p \in Expanded(last.args.platforms)
                    /\ In(p, SocialMediaService_get_available_platforms(settings)) =>
                  CountOp(PostPhotoOp(p)) = 1)
            /\ (p \notin Expanded(last.args.platforms) =>
                  Ops(last.calls) \cap AdapterOps(p) = {})
            /\ CountOp(PostPhotoOp(p)) <= 1

\* Instagram was named twice: its post_photo ran once and uploaded once, and
\* Facebook's adapter was not touched
C19_Witness ==
    /\ IsPost
    /\ last.args.platforms = <<"instagram", "instagram">>
    /\ Available("instagram") /\ Available("facebook")
    /\ CountOp("InstagramService.post_photo") = 1
    /\ CountOp("client.photo_upload") = 1
    /\ Ops(last.calls) \cap AdapterOps("facebook") = {}

(* Remote calls that never answer.  The adapters call the platforms       *)
(* synchronously and pass no timeout, so post_to_platforms stays in the   *)
(* call: `last` holds the calls made so far and is marked blocked.        *)

NoResponse == "no response"

\* the platforms' answers, any one of which may fail to come
HangEnvSpace ==
    [ig_login : LoginOutcomes \cup {NoResponse},
     ig_upload : UploadOutcomes \cup {NoResponse},
     fb_init : InitOutcomes \cup {NoResponse},
     fb_put : PutOutcomes \cup {NoResponse}]

\* the answers to the remote calls in ops, made before or at the blocked one
EnvChoicesHang(ops) ==
    [ig_login : IF "client.login" \in ops
                THEN LoginOutcomes \cup {NoResponse} ELSE {"ok"},
     ig_upload : IF "client.photo_upload" \in ops
                 THEN UploadOutcomes \cup {NoResponse} ELSE {"ok"},
     fb_init : IF "graph.get_object" \in ops
               THEN InitOutcomes \cup {NoResponse} ELSE {"ok"},
     fb_put : IF "graph.put_photo" \in ops
              THEN PutOutcomes \cup {NoResponse} ELSE {"ok"}]

HasNoResponse(calls) ==
    \E k \in 1..Len(calls) : calls[k].outcome = NoResponse

\* the position of the first call that gets no answer
FirstNoResponse(calls) ==
    CHOOSE k \in 1..Len(calls) :
        /\ calls[k].outcome = NoResponse
        /\ \A j \in 1..(k - 1) : calls[j].outcome # NoResponse

\* the calls made when the invocation comes to a halt
CallsUntilBlocked(calls) == SubSeq(calls, 1, FirstNoResponse(calls))

\* the invocation halts in its first unanswered call.  r is the outcome with
\* that call failing instead: up to the call the two runs agree, the adapter
\* in the call has the fields r gives it (no except clause assigns a field),
\* and Facebook's block has not begun while Instagram's is in a call.
Block(args, env, r) ==
    /\ HasNoResponse(r.calls)
    /\ env \in EnvChoicesHang(Ops(CallsUntilBlocked(r.calls)))
    /\ instagram' = r.ig
    /\ facebook' = (IF r.calls[FirstNoResponse(r.calls)].op
                          \in {"client.login", "client.photo_upload"}
                    THEN facebook ELSE r.fb)
    /\ last' = [Invocation("post_to_platforms", args, NoneVal, FALSE,
                           CallsUntilBlocked(r.calls))
                  EXCEPT !.blocked = TRUE]
    /\ UNCHANGED <<settings, threads>>

PostToPlatformsBlocked(platforms, image_path, caption, hashtags) ==
    /\ last.op = "none"
    /\ \E env \in HangEnvSpace :
          Block([platforms |-> platforms, image_path |-> image_path,
                 caption |-> caption, hashtags |-> hashtags],
                env,
                SocialMediaService_post_to_platforms(settings, instagram, facebook,
                    platforms, image_path, caption, hashtags, env))

InitHang ==
    /\ settings \in {s \in SettingsSpace :
                       \A f \in {"instagram_username", "instagram_password",
                                 "instagram_access_token", "instagram_account_id",
                                 "facebook_access_token", "facebook_page_id"} :
                          s[f] = "cred"}
    /\ instagram = InstagramService_init
    /\ facebook = FacebookService_init
    /\ last = NoCall
    /\ threads = NoThreads

NextHang ==
    \/ \E platforms \in TextPlatformLists :
            PostToPlatforms(platforms, [name |-> "product.jpg", readable |-> TRUE],
                            Hello, NoneOpt)
    \/ \E platforms \in TextPlatformLists :
            PostToPlatformsBlocked(platforms, [name |-> "product.jpg", readable |-> TRUE],
                                   Hello, NoneOpt)
    \/ Return

SpecHang == InitHang /\ [][NextHang]_vars

\* C20: a post_to_platforms call waiting for a remote call that never
\* answers is not left there: it has a step to take (the timeout), after
\* which the platform is recorded as failed, the other platform is attempted
\* and the report is returned.
C20_NoHang ==
    last.blocked => ENABLED NextHang

(* Request threads in post_to_platforms(["instagram"], ...) at the same  *)
(* time, on the one InstagramService of the module-level                  *)
(* social_media_service.  One action per statement that reads or assigns  *)
(* a field of the adapter; nothing in the code takes a lock.  A client    *)
(* is [owner, authenticated]: the thread that made it and whether its     *)
(* client.login has succeeded.                                            *)

\* the "Post to Instagram" block is entered
ThreadBegin(t) ==
    /\ threads[t].pc = "idle"
    /\ InstagramAvailable(settings)
    /\ threads' = [threads EXCEPT ![t] = [pc |-> "ensure", made |-> FALSE,
                                          uploaded |-> <<>>]]
    /\ UNCHANGED <<settings, instagram, facebook, last>>

\* post_photo: if not self._logged_in
ThreadEnsure(t) ==
    /\ threads[t].pc = "ensure"
    /\ threads' = [threads EXCEPT ![t].pc =
                      IF instagram._logged_in THEN "upload" ELSE "login"]
    /\ UNCHANGED <<settings, instagram, facebook, last>>

\* login: the configuration test, then if self._logged_in: return True
ThreadLogin(t) ==
    /\ threads[t].pc = "login"
    /\ threads' = [threads EXCEPT ![t].pc =
                      IF ~is_instagram_configured(settings) THEN "idle"
                      ELSE IF instagram._logged_in THEN "upload"
                      ELSE "new_client"]
    /\ UNCHANGED <<settings, instagram, facebook, last>>

\* login: self.client = InstaClient()
ThreadNewClient(t) ==
    /\ threads[t].pc = "new_client"
    /\ instagram' = [instagram EXCEPT !.client = [owner |-> t, authenticated |-> FALSE]]
    /\ threads' = [threads EXCEPT ![t].pc = "client_login", ![t].made = TRUE]
    /\ UNCHANGED <<settings, facebook, last>>

\* login: self.client.login(username, password), on the client the field
\* holds now
ThreadClientLogin(t, outcome) ==
    /\ threads[t].pc = "client_login"
    /\ IF outcome = "ok"
       THEN /\ instagram' = [instagram EXCEPT !.client.authenticated = TRUE]
            /\ threads' = [threads EXCEPT ![t].pc = "set_flag"]
       ELSE /\ instagram' = instagram
            /\ threads' = [threads EXCEPT ![t].pc = "idle", ![t].made = FALSE]
    /\ UNCHANGED <<settings, facebook, last>>

\* login: self._logged_in = True
ThreadSetFlag(t) ==
    /\ threads[t].pc = "set_flag"
    /\ instagram' = [instagram EXCEPT !._logged_in = TRUE]
    /\ threads' = [threads EXCEPT ![t].pc = "upload"]
    /\ UNCHANGED <<settings, facebook, last>>

\* post_photo: self.client.photo_upload(...), on the client the field holds
\* now; the call ends with the result
ThreadUpload(t) ==
    /\ threads[t].pc = "upload"
    /\ threads' = [threads EXCEPT ![t] = [pc |-> "idle", made |-> FALSE,
                                          uploaded |-> <<instagram.client>>]]
    /\ UNCHANGED <<settings, instagram, facebook, last>>

InitThreads ==
    /\ settings \in {s \in SettingsSpace :
                       /\ \A f \in {"instagram_username", "instagram_password",
                                    "instagram_access_token", "instagram_account_id",
                                    "facebook_access_token", "facebook_page_id"} :
                             s[f] = "cred"
                       /\ s.instagram_enabled}
    /\ instagram = InstagramService_init
    /\ facebook = FacebookService_init
    /\ last = NoCall
    /\ threads = NoThreads

NextThreads ==
    \E t \in 1..NumThreads :
        \/ ThreadBegin(t)
        \/ ThreadEnsure(t)
        \/ ThreadLogin(t)
        \/ ThreadNewClient(t)
        \/ \E outcome \in LoginOutcomes : ThreadClientLogin(t, outcome)
        \/ ThreadSetFlag(t)
        \/ ThreadUpload(t)

SpecThreads == InitThreads /\ [][NextThreads]_vars

\* C21: of two post_to_platforms calls running at the same time, neither
\* replaces the client the other has made and is still to use, and every
\* upload goes out on a client whose login has succeeded.
C21_SessionsNotShared ==
    \A t \in 1..NumThreads :
        /\ (threads[t].made /\ threads[t].pc \in {"client_login", "set_flag", "upload"} =>
              instagram.client.owner = t)
        /\ \A i \in 1..Len(threads[t].uploaded) : threads[t].uploaded[i].authenticated

\* the keys of results whose entry has the success field succ
KeysWith(succ) ==
    {Results[i].key : i \in {j \in 1..Len(Results) : Results[j].value.success = succ}}

\* C22: in every report, summary.successful holds exactly the keys of results
\* whose entry succeeded and summary.failed exactly the other keys, neither
\* holds a key twice, they share none and together they are the keys of
\* results; total_successful and total_failed are their lengths; and
\* overall_success is true exactly when summary.successful is not empty.
C22_SummaryDerived ==
    IsPost /\ ~last.raised =>
        /\ Range(last.ret.summary.successful) = KeysWith(TRUE)
        /\ Range(last.ret.summary.failed) = Keys(Results) \ KeysWith(TRUE)
        /\ Len(last.ret.summary.successful) = Cardinality(KeysWith(TRUE))
        /\ Len(last.ret.summary.failed) = Cardinality(Keys(Results) \ KeysWith(TRUE))
        /\ Range(last.ret.summary.successful) \cap Range(last.ret.summary.failed) = {}
        /\ Range(last.ret.summary.successful) \cup Range(last.ret.summary.failed)
              = Keys(Results)
        /\ last.ret.summary.total_successful = Len(last.ret.summary.successful)
        /\ last.ret.summary.total_failed = Len(last.ret.summary.failed)
        /\ (last.ret.overall_success = TRUE <=> last.ret.summary.successful # <<>>)

\* Instagram posted, Facebook's put_photo failed: one key in each list
C22_Witness ==
    /\ IsPost
    /\ Answered("client.photo_upload", "ok")
    /\ Answered("graph.put_photo", "GraphAPIError")
    /\ last.ret.summary.successful = <<"instagram">>
    /\ last.ret.summary.failed = <<"facebook">>
    /\ last.ret.summary.total_successful = 1
    /\ last.ret.summary.total_failed = 1
    /\ last.ret.overall_success = TRUE

\* the platforms the configuration makes available, instagram first
AvailableList ==
    (IF Available("instagram") THEN <<"instagram">> ELSE <<>>)
    \o (IF Available("facebook") THEN <<"facebook">> ELSE <<>>)

\* C23: a call of get_available_platforms, wherever it falls among login,
\* initialize, post_photo, logout and post_to_platforms calls, changes neither
\* the configuration nor a field of an adapter, makes no remote call, and
\* returns the list the configuration alone determines.
C23_ResolverPure ==
    [][last.op = "none" /\ last'.op = "get_available_platforms" =>
          /\ settings' = settings
          /\ instagram' = instagram
          /\ facebook' = facebook
          /\ last'.calls = <<>>
          /\ ~last'.raised
          /\ last'.ret = AvailableList]_vars

\* asked after Instagram had logged in and a Facebook initialize had failed:
\* both platforms are listed and the sessions are as they were
C23_Witness ==
    /\ last.op = "get_available_platforms"
    /\ last.pre.instagram._logged_in
    /\ last.pre.facebook.graph # NoneVal /\ ~last.pre.facebook._initialized
    /\ instagram = last.pre.instagram
    /\ facebook = last.pre.facebook
    /\ last.ret = <<"instagram", "facebook">>

\* the invocation is one of those that may authenticate platform p
MayAuthenticate(op, p) ==
    IF p = "instagram"
    THEN op \in {"login", "instagram.post_photo", "post_to_platforms"}
    ELSE op \in {"initialize", "facebook.post_photo", "post_to_platforms"}

\* C24: after construction both adapters are unauthenticated and hold no
\* client / graph; and a step that gives an adapter a handle or sets its flag
\* is a login / initialize or post_photo of that adapter (direct or through
\* post_to_platforms) whose call log shows the authentication.
C24_LazySessions ==
    /\ instagram = [client |-> NoneVal, _logged_in |-> FALSE]
    /\ facebook = [graph |-> NoneVal, _initialized |-> FALSE]
    /\ last.calls = <<>>
    /\ [][/\ (instagram'.client # instagram.client
                \/ (instagram'._logged_in /\ ~instagram._logged_in) =>
                  /\ MayAuthenticate(last'.op, "instagram")
                  /\ {"InstagramService.login", "InstaClient", "client.login"}
                        \subseteq Ops(last'.calls))
          /\ (facebook'.graph # facebook.graph
                \/ (facebook'._initialized /\ ~facebook._initialized) =>
                  /\ MayAuthenticate(last'.op, "facebook")
                  /\ {"FacebookService.initialize", "facebook.GraphAPI", "graph.get_object"}
                        \subseteq Ops(last'.calls))]_vars

\* the first post: both adapters had no handle and both authenticated in it
C24_Witness ==
    /\ IsPost
    /\ last.pre.instagram = [client |-> NoneVal, _logged_in |-> FALSE]
    /\ last.pre.facebook = [graph |-> NoneVal, _initialized |-> FALSE]
    /\ Answered("client.login", "ok")
    /\ Answered("graph.get_object", "ok")
    /\ instagram._logged_in /\ instagram.client # NoneVal
    /\ facebook._initialized /\ facebook.graph # NoneVal

\* C25: what post_to_platforms hands to each adapter's post_photo is the
\* caller's caption and the caller's hashtag list as they came in; the
\* coordinator joins nothing into the text.
C25_HashtagsPassedThrough ==
    IsPost =>
        \A i \in 1..Len(last.calls) :
            last.calls[i].op \in {"InstagramService.post_photo",
                                  "FacebookService.post_photo"} =>
                last.calls[i].arg = <<last.args.caption, last.args.hashtags>>

\* C26: in every successful publish the reported content length
\* (caption_length, message_length) is the length of the text that was
\* submitted to the platform, and the text submitted to Instagram is never
\* longer than 2200 characters.
C26_LengthReported ==
    /\ \A i \in 1..Len(last.calls) :
          last.calls[i].op = "client.photo_upload" =>
              /\ Len(last.calls[i].arg) <= 2200
              /\ (last.calls[i].outcome = "ok" =>
                    \E e \in Entries :
                        /\ e.success = TRUE
                        /\ e.platform = "instagram"
                        /\ e.caption_length = Len(last.calls[i].arg))
    /\ \A i \in 1..Len(last.calls) :
          last.calls[i].op = "graph.put_photo" /\ last.calls[i].outcome = "ok" =>
              \E e \in Entries :
                  /\ e.success = TRUE
                  /\ e.platform = "facebook"
                  /\ e.message_length = Len(last.calls[i].arg)
    /\ \A e \in Entries :
          e.success = TRUE =>
              \E i \in 1..Len(last.calls) :
                  /\ last.calls[i].op \in {"client.photo_upload", "graph.put_photo"}
                  /\ last.calls[i].outcome = "ok"

\* a text over the cap: Instagram reports 2200, the length it uploaded, and
\* Facebook reports the full length it put
C26_Witness ==
    /\ IsPost
    /\ Len(Shaped(last.args.caption, last.args.hashtags)) > 2200
    /\ \E e \in Entries :
          e.success = TRUE /\ e.platform = "instagram" /\ e.caption_length = 2200
    /\ \E e \in Entries :
          /\ e.success = TRUE /\ e.platform = "facebook"
          /\ e.message_length = Len(Shaped(last.args.caption, last.args.hashtags))

\* C27: in every report, whatever the requested list, total_requested is the
\* number of keys of results and is total_successful + total_failed, and
\* requested_platforms lists exactly the keys of results.
C27_TotalsAgree ==
    IsPost /\ ~last.raised =>
        /\ last.ret.summary.total_requested = Cardinality(Keys(Results))
        /\ last.ret.summary.total_requested
              = last.ret.summary.total_successful + last.ret.summary.total_failed
        /\ Range(last.ret.requested_platforms) = Keys(Results)
        /\ Len(last.ret.requested_platforms) = Cardinality(Keys(Results))

\* C28: every client.login the Instagram adapter makes is given a username
\* and a password that are both present, also when the configuration is
\* complete through the access token and account id alone.
C28_LoginWithCredentials ==
    \A i \in 1..Len(last.calls) :
        last.calls[i].op = "client.login" =>
            /\ Truthy(last.calls[i].arg[1])
            /\ Truthy(last.calls[i].arg[2])

\* C29: in every state reached by login, initialize, post_photo, logout and
\* post_to_platforms calls, an adapter whose flag is set holds a client /
\* graph, and no publish failed on a missing handle.
C29_FlagImpliesHandle ==
    /\ instagram._logged_in => instagram.client # NoneVal
    /\ facebook._initialized => facebook.graph # NoneVal
    /\ last.pre.instagram._logged_in => last.pre.instagram.client # NoneVal
    /\ last.pre.facebook._initialized => last.pre.facebook.graph # NoneVal
    /\ \A e \in Entries : e.success = FALSE => e.error # "AttributeError"

\* logged out and in again: the post_photo found a client without the flag,
\* logged in on a new one and uploaded
C29_Witness ==
    /\ last.op = "instagram.post_photo"
    /\ last.pre.instagram.client # NoneVal
    /\ ~last.pre.instagram._logged_in
    /\ Answered("client.login", "ok")
    /\ Answered("client.photo_upload", "ok")
    /\ instagram._logged_in
    /\ instagram.client # NoneVal
    /\ facebook._initialized

\* C30: a post_to_platforms call changes no field of an adapter whose
\* platform is outside the resolved set or is unavailable, and changes
\* neither the configuration nor the caller's platforms and hashtags lists.
C30_FrameOfPost ==
    [][last.op = "none" /\ last'.op = "post_to_platforms" =>
          /\ settings' = settings
          /\ last'.caller.platforms = last'.args.platforms
          /\ last'.caller.hashtags = last'.args.hashtags
          /\ ("instagram" \notin Expanded(last'.args.platforms)
                \/ ~Available("instagram") => instagram' = instagram)
          /\ ("facebook" \notin Expanded(last'.args.platforms)
                \/ ~Available("facebook") => facebook' = facebook)]_vars

\* both requested with Facebook disabled though configured: Instagram logged
\* in and posted, Facebook's adapter is as it was constructed
C30_Witness ==
    /\ IsPost
    /\ Expanded(last.args.platforms) = Concrete
    /\ last.args.hashtags = Some(<<TagA, TagB>>)
    /\ ~settings.facebook_enabled /\ CredentialComplete("facebook")
    /\ ~last.pre.instagram._logged_in /\ instagram._logged_in
    /\ HasEntry("instagram", TRUE)
    /\ facebook = [graph |-> NoneVal, _initialized |-> FALSE]
    /\ last.caller = [platforms |-> last.args.platforms, hashtags |-> last.args.hashtags]

====
